---- MODULE Spec2Model ----
(***************************************************************************)
(* A model of the multi-layer ECG simulator: the facade CardiacSimulator,  *)
(* the three layers behind it (SimpleLayer, IntermediateLayer,             *)
(* RealisticLayer), the configuration catalog, the template table and the  *)
(* signal record ECGSignal.                                                *)
(*                                                                         *)
(* Conventions.  Real numbers of the program are exact rationals here:     *)
(* a duration is a whole number of milliseconds, a rate is kept as twice   *)
(* its value in bpm (rate2), a fraction is a <<num, den>> pair, and int()  *)
(* is truncation toward zero (Trunc).  A draw of the random generator is   *)
(* an input of the step that consumes it: uniform(lo, hi) over a range     *)
(* symmetric about 0 is one of the 2*DrawRes+1 points k/DrawRes of it, and *)
(* uniform(min, max) for a rate is min, the midpoint or max.  A sample     *)
(* buffer is kept by its length and by what was written into it.           *)
(***************************************************************************)
EXTENDS Integers, Sequences, FiniteSets, TLC

VARIABLES
    layer_type,         \* CardiacSimulator.layer_type
    layer,              \* CardiacSimulator._layer: the active layer instance
    current_arrhythmia, \* CardiacSimulator._current_arrhythmia
    call,               \* the generate call in progress (pc = "idle": none)
    record,             \* the ECGSignal last returned to the caller, <<>> if none
    err,                \* the exception last raised to the caller, <<>> if none
    log,                \* what the program has printed or logged so far
    ref,                \* the same call, with the same draws, on a new layer instance
    outgoing_state,     \* <<the outgoing layer's state>> while a successful
                        \* switch_layer is the last operation, <<>> otherwise
    previous_layer,     \* <<the state of the layer instance the last switch_layer
                        \* replaced, and the keys under which it holds the very
                        \* object the active layer holds>> while the caller has
                        \* since worked on layer state only, <<>> otherwise
    switch,             \* the switch_layer call in progress on another thread
                        \* (pc = "idle": none) and its local variables
    hh_model,           \* RealisticLayer.hh_model: the ionic model's state
    sim                 \* the simulate_action_potential call a client of the
                        \* ionic model has in progress (pc = "idle": none)

vars == <<layer_type, layer, current_arrhythmia, call, record, err, log, ref,
          outgoing_state, previous_layer, switch, hh_model, sim>>

\* The variables no facade operation of a single-threaded client changes.
other_vars == <<switch, hh_model, sim>>

\* The facade's variables.
facade_vars ==
    <<layer_type, layer, current_arrhythmia, call, record, err, log, ref,
      outgoing_state, previous_layer, switch>>

\* ------------------------------------------------------------------ bounds

\* Resolution of a random draw: uniform(-v, v) is v*k/DrawRes, k in -DrawRes..DrawRes.
DrawRes == 1
\* hrv is h/HrvDen for h in 0..HrvDen.
HrvDen == 1
\* Requested durations, in milliseconds (0 s, 21 ms, 0.801 s).
Durations == {0, 21, 801}
\* Keys and values a caller stores in a layer's state dictionary.
StateKeys == {"last_phase"}
StateVals == {1, 2}

\* --------------------------------------------------------------- constants

SAMPLING_RATE == 500
SAFETY_MINIMUM == 100

LeadNames == {"I", "II"}
\* The leads argument of a generate call; <<>> is "not given".
LeadLists == {<<>>, <<"I", "II">>}
\* The leads the facade was constructed with.
FacadeLeads == <<"II">>

LayerTypes == {"simple", "intermediate", "realistic"}

NORMAL_SINUS == "NORMAL_SINUS"
ATRIAL_FIBRILLATION == "SUPRA_TACHY_ATRIAL_FIBRILLATION"
WENCKEBACH == "SUPRA_BRADY_AV_BLOCK_2_WENCKEBACH"
AV_BLOCK_3 == "SUPRA_BRADY_AV_BLOCK_3"
WPW == "SUPRA_TACHY_WPW"
PAC == "SUPRA_OTHER_PAC"
VENT_PVC == "VENT_PVC"
PVC_BIGEMINY == "VENT_PVC_BIGEMINY"
TORSADES == "VENT_TORSADES"
VF_COARSE == "VENT_VF_COARSE"
VF_FINE == "VENT_VF_FINE"
ASYSTOLE == "VENT_ASYSTOLE"

\* The members of ArrhythmiaType the model covers.
ArrhythmiaType ==
    {NORMAL_SINUS, ATRIAL_FIBRILLATION, WENCKEBACH, AV_BLOCK_3, WPW, PAC,
     VENT_PVC, PVC_BIGEMINY, TORSADES, VF_COARSE, VF_FINE, ASYSTOLE}

\* The arrhythmias a caller asks for.
Rhythms == ArrhythmiaType \ {VENT_PVC}

\* ----------------------------------------------------------------- helpers

\* int(a / b) for b > 0: truncation toward zero.
Trunc(a, b) == IF a >= 0 THEN a \div b ELSE -((-a) \div b)

Min(a, b) == IF a <= b THEN a ELSE b
Max(a, b) == IF a >= b THEN a ELSE b

Range(s) == {s[i] : i \in 1..Len(s)}

Draws == (-DrawRes)..DrawRes
Hrvs == 0..HrvDen

\* uniform(min, max), as twice the rate drawn.
RateChoices(range) == {2 * range[1], range[1] + range[2], 2 * range[2]}

\* ----------------------------------------------------------------- catalog

\* WaveformParams defaults of ArrhythmiaConfig; amplitudes in 1/100 mV.
Cfg(a, cat, rr, reg, pr, qrs, pmorph, pamp) ==
    [arrhythmia_type |-> a, category |-> cat, rate_range |-> rr,
     rate_regularity |-> reg, pr_interval |-> pr, qrs_duration |-> qrs,
     p_morphology |-> pmorph, p_amplitude |-> pamp]

CatalogTypes ==
    {NORMAL_SINUS, WENCKEBACH, AV_BLOCK_3, ATRIAL_FIBRILLATION, WPW, VENT_PVC,
     TORSADES, VF_COARSE, VF_FINE, ASYSTOLE}

ARRHYTHMIA_CONFIGS == [a \in CatalogTypes |->
    CASE a = NORMAL_SINUS ->
           Cfg(a, "normal", <<60, 100>>, "regular", <<120, 200>>, <<80, 100>>, "normal", 15)
      [] a = WENCKEBACH ->
           Cfg(a, "supraventricular", <<40, 80>>, "regularly_irregular", <<200, 400>>, <<80, 100>>, "normal", 15)
      [] a = AV_BLOCK_3 ->
           Cfg(a, "supraventricular", <<20, 50>>, "regular", <<>>, <<80, 160>>, "normal", 15)
      [] a = ATRIAL_FIBRILLATION ->
           Cfg(a, "supraventricular", <<60, 180>>, "irregular", <<>>, <<80, 100>>, "absent", 0)
      [] a = WPW ->
           Cfg(a, "supraventricular", <<140, 250>>, "regular", <<80, 120>>, <<100, 160>>, "normal", 15)
      [] a = VENT_PVC ->
           Cfg(a, "ventricular", <<60, 100>>, "irregular", <<>>, <<120, 200>>, "normal", 15)
      [] a = TORSADES ->
           Cfg(a, "ventricular", <<200, 300>>, "irregular", <<>>, <<120, 200>>, "normal", 15)
      [] a = VF_COARSE ->
           Cfg(a, "ventricular", <<300, 500>>, "irregular", <<>>, <<>>, "absent", 0)
      [] a = VF_FINE ->
           Cfg(a, "ventricular", <<300, 500>>, "irregular", <<>>, <<>>, "normal", 15)
      [] a = ASYSTOLE ->
           Cfg(a, "ventricular", <<0, 0>>, "regular", <<>>, <<>>, "absent", 0)]

\* A fallback that hands out the normal-sinus entry of the catalog as it is.
DefaultConfig_sinus(a) == ARRHYTHMIA_CONFIGS[NORMAL_SINUS]

\* The ArrhythmiaConfig get_arrhythmia_config builds for a type without entry.
DefaultConfig(a) ==
    Cfg(a, "unknown", <<60, 100>>, "regular", <<>>, <<80, 100>>, "normal", 15)

get_arrhythmia_config(a) ==
    IF a \in CatalogTypes THEN ARRHYTHMIA_CONFIGS[a] ELSE DefaultConfig(a)

\* --------------------------------------------------------------- templates

\* ECGTemplate: rr_variability in percent.
Tmpl(a, rate, rrv, reg, pat, base) ==
    [arrhythmia_type |-> a, rate_bpm |-> rate, rr_variability |-> rrv,
     regularity |-> reg, pattern |-> pat, baseline |-> base]

TEMPLATES == [a \in ArrhythmiaType |->
    CASE a = NORMAL_SINUS -> Tmpl(a, <<60, 100>>, 5, "regular", "None", "flat")
      [] a = WENCKEBACH -> Tmpl(a, <<40, 80>>, 5, "irregular", "wenckebach", "flat")
      [] a = AV_BLOCK_3 -> Tmpl(a, <<30, 45>>, 5, "regular", "av_dissociation", "flat")
      [] a = ATRIAL_FIBRILLATION -> Tmpl(a, <<60, 160>>, 30, "chaotic", "None", "fibrillatory")
      [] a = WPW -> Tmpl(a, <<100, 250>>, 5, "regular", "None", "flat")
      [] a = PAC -> Tmpl(a, <<60, 100>>, 5, "regular", "premature", "flat")
      [] a = VENT_PVC -> Tmpl(a, <<60, 100>>, 5, "regular", "pvc", "flat")
      [] a = PVC_BIGEMINY -> Tmpl(a, <<60, 100>>, 5, "regular", "bigeminy", "flat")
      [] a = TORSADES -> Tmpl(a, <<200, 300>>, 5, "irregular", "None", "torsades")
      [] a = VF_COARSE -> Tmpl(a, <<300, 500>>, 5, "chaotic", "None", "chaotic")
      [] a = VF_FINE -> Tmpl(a, <<300, 500>>, 5, "chaotic", "None", "chaotic_fine")
      [] a = ASYSTOLE -> Tmpl(a, <<0, 0>>, 5, "regular", "None", "flat")]

\* WaveTemplate: the duration in ms and the shape.
WaveTemplate(duration_ms, shape) == [duration_ms |-> duration_ms, shape |-> shape]

\* The waves of an ECGTemplate: p_wave and t_wave are <<>> for None;
\* pr_interval in ms.
Waves(p, qrs, t, pr) ==
    [p_wave |-> p, qrs_complex |-> qrs, t_wave |-> t, pr_interval |-> pr]

WAVES == [a \in ArrhythmiaType |->
    CASE a = NORMAL_SINUS ->
           Waves(<<WaveTemplate(80, "gaussian")>>, WaveTemplate(80, "qrs"),
                 <<WaveTemplate(160, "gaussian")>>, 160)
      [] a = WENCKEBACH ->
           Waves(<<WaveTemplate(80, "gaussian")>>, WaveTemplate(80, "qrs"),
                 <<WaveTemplate(160, "gaussian")>>, 200)
      [] a = AV_BLOCK_3 ->
           Waves(<<WaveTemplate(80, "gaussian")>>, WaveTemplate(120, "wide_qrs"),
                 <<WaveTemplate(160, "gaussian")>>, 0)
      [] a = ATRIAL_FIBRILLATION ->
           Waves(<<>>, WaveTemplate(80, "qrs"), <<WaveTemplate(160, "gaussian")>>, 0)
      [] a = WPW ->
           Waves(<<WaveTemplate(70, "gaussian")>>, WaveTemplate(130, "delta"),
                 <<WaveTemplate(140, "gaussian")>>, 100)
      [] a = PAC ->
           Waves(<<WaveTemplate(70, "gaussian")>>, WaveTemplate(80, "qrs"),
                 <<WaveTemplate(160, "gaussian")>>, 160)
      [] a \in {VENT_PVC, PVC_BIGEMINY} ->
           Waves(<<>>, WaveTemplate(140, "wide_qrs"),
                 <<WaveTemplate(140, "gaussian")>>, 160)
      [] a = TORSADES -> Waves(<<>>, WaveTemplate(150, "wide_qrs"), <<>>, 160)
      [] a = VF_COARSE -> Waves(<<>>, WaveTemplate(200, "vf_coarse"), <<>>, 160)
      [] a = VF_FINE -> Waves(<<>>, WaveTemplate(200, "vf_fine"), <<>>, 160)
      [] a = ASYSTOLE -> Waves(<<>>, WaveTemplate(0, "gaussian"), <<>>, 160)]

\* A lookup that knows the rhythms of the catalog only.
get_template_catalog(a) == IF a \in CatalogTypes THEN <<TEMPLATES[a]>> ELSE <<>>

\* get_template: the found template, <<>> when it raises ValueError.
get_template(a) == IF a \in DOMAIN TEMPLATES THEN <<TEMPLATES[a]>> ELSE <<>>

\* ------------------------------------------------------------------ layers

EmptyState == [k \in {} |-> 0]

NoParams ==
    [p_duration |-> 0, pr_interval |-> 0, qrs_duration |-> 0, qt_interval |-> 0,
     p_amplitude |-> 0, r_amplitude |-> 0, t_amplitude |-> 0]

\* IntermediateLayer._init_params: milliseconds and 1/100 mV.
init_params ==
    [p_duration |-> 80, pr_interval |-> 160, qrs_duration |-> 80, qt_interval |-> 400,
     p_amplitude |-> 15, r_amplitude |-> 100, t_amplitude |-> 30]

\* BaseLayer.__init__ and the three subclasses' __init__.
create_layer(layer_kind) ==
    [kind |-> layer_kind,
     state |-> EmptyState,
     current_template |-> "None",
     params |-> IF layer_kind = "intermediate" THEN init_params ELSE NoParams]

get_state(l) == l.state

set_state(l, snapshot) ==
    [l EXCEPT !.state = [k \in DOMAIN l.state \cup DOMAIN snapshot |->
                            IF k \in DOMAIN snapshot THEN snapshot[k] ELSE l.state[k]]]

\* The keys under which two dictionaries hold one and the same value object
\* after old.get_state() was passed to new.set_state(): get_state copies the
\* dictionary, not the values, and update stores the values it is given.
SharedAfterHandOff(snapshot) == DOMAIN snapshot

\* The replaced layer instance, as its caller keeps it.
Previous(old, snapshot) ==
    [state |-> old.state, shared |-> SharedAfterHandOff(snapshot)]

\* The replaced instance after the active layer's value under k was changed
\* in place to v: it sees the change where it holds the same object.
PreviousAfterMutation(prev, k, v) ==
    IF prev = <<>> \/ k \notin prev[1].shared THEN prev
    ELSE <<[prev[1] EXCEPT !.state[k] = v]>>

\* The replaced instance after the active layer was given a new value under
\* k: the two no longer hold the same object there.
PreviousAfterSetState(prev, k) ==
    IF prev = <<>> THEN prev
    ELSE <<[prev[1] EXCEPT !.shared = prev[1].shared \ {k}]>>

\* -------------------------------------------------------------- call state

NoConfig == Cfg("None", "None", <<0, 0>>, "None", <<>>, <<>>, "None", 0)

NoSignals == [l \in {} |-> 0]

\* np.zeros(num_samples) as the beats of one lead are written into it: beats
\* is the number of beats written so far and replaced whether a sample that
\* a beat wrote is held no more (a sample that is the sum of two beats'
\* samples holds both).
EmptyBuffer == [beats |-> 0, replaced |-> FALSE]

IdleCall ==
    [pc |-> "idle", arrhythmia |-> "None", duration |-> 0, config |-> NoConfig,
     num_samples |-> 0, leads |-> <<>>, hrv |-> 0, li |-> 0, tmpl |-> "None",
     params |-> NoParams, rate2 |-> 0, base |-> 0, pos |-> 0, nbeats |-> 0,
     rr_lo |-> 0, rr_hi |-> 0, n_steps |-> 0, signals |-> NoSignals,
     sched |-> NoSignals, exc |-> "None", single_ap |-> <<>>,
     buffer |-> EmptyBuffer, beat |-> <<>>]

\* One lead's sample array: its length, what it holds before noise, and the
\* noise term added to it.
Lead(len, content, noise) == [len |-> len, content |-> content, noise |-> noise]

\* The beat schedule one lead was rendered from: twice the target rate and
\* the number of beats placed.
Schedule(c) == [rate2 |-> c.rate2, nbeats |-> c.nbeats]

Exception(op, type, requested, listed, available) ==
    [op |-> op, type |-> type, requested |-> requested,
     lists_available |-> listed, available |-> available]

\* int(duration_seconds * self.sampling_rate), the duration in milliseconds.
NumSamples(duration_ms) == Trunc(duration_ms * SAMPLING_RATE, 1000)

ECGSignal(c) ==
    [signals |-> c.signals, leads |-> c.leads, sampling_rate |-> SAMPLING_RATE,
     arrhythmia |-> c.arrhythmia, duration |-> c.duration]

CurrentLead(c) == c.leads[c.li]

Put(f, k, v) == [x \in DOMAIN f \cup {k} |-> IF x = k THEN v ELSE f[x]]

\* signals[lead] = signal, and on to the next lead of the loop.
StoreLead(c, sig) ==
    [c EXCEPT !.signals = Put(c.signals, CurrentLead(c), sig),
              !.sched = Put(c.sched, CurrentLead(c), Schedule(c)),
              !.li = c.li + 1, !.pc = "lead"]

\* A "return signals" indented into the loop body: the loop ends after its
\* first lead.
LeadsDone_first(c) == c.li > 1

\* The end of "for lead in leads".
LeadsDone(c) == c.li > Len(c.leads)

\* The call ends in an exception of this type.
Raised(c, type) == [c EXCEPT !.pc = "raised", !.exc = type]

\* The next state of the call: an exception leaves generate and the facade,
\* and nothing is returned.  newref is the same step on a new layer instance.
Commit(new, newref) ==
    /\ call' = IF new.pc = "raised" THEN IdleCall ELSE new
    /\ record' = <<>>
    /\ err' = IF new.pc = "raised"
              THEN <<Exception("generate", new.exc, "", FALSE, {})>>
              ELSE <<>>
    /\ ref' = IF new.pc = "raised" /\ newref = new THEN IdleCall ELSE newref
    /\ outgoing_state' = <<>>
    /\ previous_layer' = <<>>

\* The interval the schedule has just advanced by.
NoteRR(c, rr) ==
    [c EXCEPT !.rr_lo = IF c.nbeats = 0 THEN rr ELSE Min(c.rr_lo, rr),
              !.rr_hi = IF c.nbeats = 0 THEN rr ELSE Max(c.rr_hi, rr)]

\* The schedule advances by rr: one more beat.
Advance(c, rr) ==
    [NoteRR(c, rr) EXCEPT !.pos = c.pos + rr, !.nbeats = c.nbeats + 1]

\* The start of a beat loop at target rate rate2 / 2 and base cycle base.
StartLoop(c, r2, base) ==
    [c EXCEPT !.pc = "beats", !.rate2 = r2, !.base = base, !.pos = 0,
              !.nbeats = 0, !.rr_lo = 0, !.rr_hi = 0, !.buffer = EmptyBuffer,
              !.beat = <<>>]

\* signal[pos:pos + beat_len] += beat[:beat_len], beat_len = min(len(beat),
\* num_samples - pos), if beat_len > 0.
AddBeat(c, len) ==
    LET beat_len == Min(len, c.num_samples - c.pos)
    IN  IF beat_len > 0
        THEN [c EXCEPT !.buffer.beats = @ + 1]
        ELSE c

\* signal[beat_pos:end_pos] = beat[:beat_len], end_pos = min(beat_pos + len(beat),
\* num_samples), if beat_len > 0, for the beat at the position appended
\* last; next_pos is the position computed after it.  If next_pos is below
\* num_samples the loop appends it too, and the assignment of that beat
\* replaces what this one wrote from next_pos on.
AssignBeat(c, len, next_pos) ==
    LET end_pos == Min(c.pos + len, c.num_samples)
        beat_len == end_pos - c.pos
        replaced == IF next_pos < c.num_samples THEN Max(0, end_pos - next_pos)
                    ELSE 0
    IN  IF beat_len > 0
        THEN [c EXCEPT !.buffer.beats = @ + 1,
                       !.buffer.replaced = @ \/ replaced > 0]
        ELSE c


\* ------------------------------------------------------------- SimpleLayer

\* The fraction rr_var of _generate_lead_signal, as <<num, den>>.
SimpleRRVar(t, hrv) ==
    IF t.regularity = "chaotic" THEN <<t.rr_variability, 100>>
    ELSE IF t.regularity = "irregular" THEN <<t.rr_variability * 2, 100>>
    ELSE <<hrv, HrvDen * 2>>

\* base_rr_samples = int(60000 / rate * sampling_rate / 1000)
SimpleBaseRR(rate2) == Trunc(120 * SAMPLING_RATE, rate2)

\* if current_rr < 100: current_rr = 100
SafetyMinimum(rr) == IF rr < SAFETY_MINIMUM THEN SAFETY_MINIMUM ELSE rr

\* current_rr of one loop iteration, k the draw of uniform(-rr_var, rr_var).
SimpleCurrentRR(base, t, hrv, k) ==
    LET v == SimpleRRVar(t, hrv)
    IN  SafetyMinimum(base + Trunc(base * k * v[1], v[2] * DrawRes))

\* self._current_template after generate has looked the template up.
SimpleTemplateAfter(l, t) == [l EXCEPT !.current_template = t.arrhythmia_type]

\* The template _generate_lead_signal is called with: the local of generate.
SimpleTemplateUsed(l, t) == t.arrhythmia_type

\* SimpleLayer.generate up to the loop over the leads.
SimpleEnter(l, c) ==
    LET t == get_template(c.config.arrhythmia_type)
    IN  IF t = <<>> THEN Raised(c, "ValueError")
        ELSE [c EXCEPT !.pc = "lead", !.li = 1, !.tmpl = SimpleTemplateUsed(l, t[1])]

\* _generate_lead_signal up to the beat loop, r2 the draw of the rate; the
\* two special rhythms are finished here.
SimpleLeadStep(c, r2) ==
    LET t == TEMPLATES[c.tmpl]
        n == c.num_samples
    IN  IF t.arrhythmia_type = ASYSTOLE
        THEN StoreLead(c, Lead(n, "zeros", "tenth"))
        ELSE IF t.arrhythmia_type = VF_COARSE
        THEN IF n = 0
             THEN Raised(c, "ValueError")   \* np.max of an empty array
             ELSE StoreLead(c, Lead(n, "vf", "none"))
        ELSE StartLoop(c, r2, SimpleBaseRR(r2))

SimpleLead ==
    /\ call.pc = "lead"
    /\ layer.kind = "simple"
    /\ ~LeadsDone(call)
    /\ \E r2 \in RateChoices(TEMPLATES[call.tmpl].rate_bpm) :
         Commit(SimpleLeadStep(call, r2), SimpleLeadStep(ref, r2))
    /\ UNCHANGED <<layer_type, layer, current_arrhythmia, log>>
    /\ UNCHANGED other_vars

\* len(template.generate_beat(...)): total_samples = int(rr_ms * sampling_rate
\* / 1000), rr_ms = 60000 / mean(rate_bpm), the rate 60 if the mean is <= 0.
SimpleBeatLen(t) ==
    IF t.rate_bpm[1] + t.rate_bpm[2] <= 0 THEN Trunc(120 * SAMPLING_RATE, 120)
    ELSE Trunc(120 * SAMPLING_RATE, t.rate_bpm[1] + t.rate_bpm[2])

\* len(WaveTemplate.generate(...)): int(duration_ms * sampling_rate / 1000),
\* at least 2, and half as many again for a 'wide_qrs'.
WaveLen(w) ==
    LET samples == Max(2, Trunc(w.duration_ms * SAMPLING_RATE, 1000))
    IN  IF w.shape = "wide_qrs" THEN Trunc(samples * 3, 2) ELSE samples

\* ECGTemplate.generate_beat: the length of the beat, the template it is
\* rendered from, the shape of its QRS complex and the offsets at which its
\* components are written (<<>>: the component is not written).  A beat of a
\* 'chaotic', 'chaotic_fine' or 'torsades' baseline is one oscillation and
\* has no components.
generate_beat(a) ==
    LET t == TEMPLATES[a]
        w == WAVES[a]
        total_samples == SimpleBeatLen(t)
        pr == Trunc(w.pr_interval * SAMPLING_RATE, 1000)
        pos == IF pr >= total_samples THEN total_samples \div 4 ELSE pr
        qrs_len == Min(WaveLen(w.qrs_complex), total_samples - pos)
        t_pos == pos + WaveLen(w.qrs_complex) + Trunc(80 * SAMPLING_RATE, 1000)
        oscillation == t.baseline \in {"chaotic", "chaotic_fine", "torsades"}
    IN  [template |-> a, len |-> total_samples, shape |-> w.qrs_complex.shape,
         p_wave |-> IF oscillation \/ w.p_wave = <<>> THEN <<>> ELSE <<0>>,
         qrs_complex |-> IF oscillation \/ qrs_len <= 0 THEN <<>> ELSE <<pos>>,
         t_wave |-> IF oscillation \/ w.t_wave = <<>> \/ t_pos >= total_samples
                    THEN <<>> ELSE <<t_pos>>]

\* The template the beat with index beat_count is rendered from: every
\* other beat of a 'bigeminy' template is the PVC template's.
SimpleBeatTemplate(t, beat_count) ==
    IF t.pattern = "bigeminy" /\ beat_count % 2 = 1 THEN VENT_PVC
    ELSE t.arrhythmia_type

\* The beat of one iteration, with its index.
SimpleBeatOf(c) ==
    [c EXCEPT !.beat = <<[index |-> c.nbeats,
                          beat |-> generate_beat(
                              SimpleBeatTemplate(TEMPLATES[c.tmpl], c.nbeats))]>>]

\* One iteration of "while current_pos < num_samples": the beat is generated
\* and placed at current_pos, then current_pos advances.
SimpleBeatStep(c, k) ==
    Advance(AddBeat(SimpleBeatOf(c), SimpleBeatLen(TEMPLATES[c.tmpl])),
            SimpleCurrentRR(c.base, TEMPLATES[c.tmpl], c.hrv, k))

SimpleBeat ==
    /\ call.pc = "beats"
    /\ layer.kind = "simple"
    /\ call.pos < call.num_samples
    /\ \E k \in Draws : Commit(SimpleBeatStep(call, k), SimpleBeatStep(ref, k))
    /\ UNCHANGED <<layer_type, layer, current_arrhythmia, log>>
    /\ UNCHANGED other_vars

\* The loop is left: noise, baseline wander, return signal; the buffer is
\* the lead's signal from here on.
FinishLeadStep(c) ==
    StoreLead([c EXCEPT !.buffer = EmptyBuffer, !.beat = <<>>], Lead(c.num_samples, "beats", "full"))

SimpleFinishLead ==
    /\ call.pc = "beats"
    /\ layer.kind = "simple"
    /\ call.pos >= call.num_samples
    /\ Commit(FinishLeadStep(call), FinishLeadStep(ref))
    /\ UNCHANGED <<layer_type, layer, current_arrhythmia, log>>
    /\ UNCHANGED other_vars

\* ------------------------------------------------------- IntermediateLayer

Mean(pair) == (pair[1] + pair[2]) \div 2

\* _update_params_for_arrhythmia: the parameters of this call.
update_params_for_arrhythmia(base_params, config) ==
    LET p1 == IF config.pr_interval # <<>>
              THEN [base_params EXCEPT !.pr_interval = Mean(config.pr_interval)]
              ELSE base_params
        p2 == IF config.qrs_duration # <<>>
              THEN [p1 EXCEPT !.qrs_duration = Mean(config.qrs_duration)]
              ELSE p1
    IN  IF config.p_morphology = "absent" THEN [p2 EXCEPT !.p_amplitude = 0]
        ELSE IF config.p_morphology = "inverted"
             THEN [p2 EXCEPT !.p_amplitude = -config.p_amplitude]
             ELSE p2

\* The derivation without the .copy(): the table itself is updated.
IntermediateParamsAfter_inplace(l, params) == params

\* self._params after _update_params_for_arrhythmia has derived params: the
\* derivation works on self._params.copy(), the table stays as it was.
IntermediateParamsAfter(l, params) == l.params

\* The fraction "variation" of _calculate_beat_positions, as <<num, den>>.
IntermediateVariation(config, hrv) ==
    IF config.rate_regularity = "regular" THEN <<hrv * 2, HrvDen * 100>>
    ELSE IF config.rate_regularity = "irregular" THEN <<3, 10>>
    ELSE <<hrv * 15, HrvDen * 100>>

\* base_rr = int((60.0 / rate) * self.sampling_rate)
IntermediateBaseRR(rate2) == Trunc(120 * SAMPLING_RATE, rate2)

\* An advance by the jitter alone: current_pos += rr_var.
IntermediateCurrentRR_jitter(base, config, hrv, k) ==
    LET v == IntermediateVariation(config, hrv)
    IN  Trunc(base * k * v[1], v[2] * DrawRes)

\* base_rr + rr_var of one loop iteration.
IntermediateCurrentRR(base, config, hrv, k) ==
    LET v == IntermediateVariation(config, hrv)
    IN  base + Trunc(base * k * v[1], v[2] * DrawRes)

\* A derivation that normalises the configuration it was handed in place:
\* config.pr_interval is replaced by its mean.
IntermediateEnter_normalise(l, c) ==
    [c EXCEPT !.pc = "lead", !.li = 1,
              !.params = update_params_for_arrhythmia(l.params, c.config),
              !.config.pr_interval =
                  IF c.config.pr_interval = <<>> THEN <<>>
                  ELSE <<Mean(c.config.pr_interval), Mean(c.config.pr_interval)>>]

\* IntermediateLayer.generate up to the loop over the leads.
IntermediateEnter(l, c) ==
    [c EXCEPT !.pc = "lead", !.li = 1,
              !.params = update_params_for_arrhythmia(l.params, c.config)]

\* _generate_lead_signal up to the loop of _calculate_beat_positions, r2 the
\* draw of the rate.
IntermediateLeadStep(c, r2) ==
    IF r2 = 0
    THEN Raised(c, "ZeroDivisionError")   \* 60.0 / rate
    ELSE StartLoop(c, r2, IntermediateBaseRR(r2))

IntermediateLead ==
    /\ call.pc = "lead"
    /\ layer.kind = "intermediate"
    /\ ~LeadsDone(call)
    /\ \E r2 \in RateChoices(call.config.rate_range) :
         Commit(IntermediateLeadStep(call, r2), IntermediateLeadStep(ref, r2))
    /\ UNCHANGED <<layer_type, layer, current_arrhythmia, log>>
    /\ UNCHANGED other_vars

\* len(beat) of _generate_parametric_beat: int(rr * sampling_rate),
\* rr = 60.0 / mean(rate_range).
IntermediateBeatLen(config) ==
    Trunc(120 * SAMPLING_RATE, config.rate_range[1] + config.rate_range[2])

\* One iteration of "while current_pos < num_samples", with the iteration of
\* "for beat_pos in beat_positions" that places the beat at the position
\* appended here.
IntermediateBeatStep(c, k) ==
    LET rr == IntermediateCurrentRR(c.base, c.config, c.hrv, k)
    IN  Advance(AssignBeat(c, IntermediateBeatLen(c.config), c.pos + rr), rr)

IntermediateBeat ==
    /\ call.pc = "beats"
    /\ layer.kind = "intermediate"
    /\ call.pos < call.num_samples
    /\ \E k \in Draws :
         Commit(IntermediateBeatStep(call, k), IntermediateBeatStep(ref, k))
    /\ UNCHANGED <<layer_type, layer, current_arrhythmia, log>>
    /\ UNCHANGED other_vars

\* The positions are returned: the beats are placed, noise, baseline wander.
IntermediateFinishLead ==
    /\ call.pc = "beats"
    /\ layer.kind = "intermediate"
    /\ call.pos >= call.num_samples
    /\ Commit(FinishLeadStep(call), FinishLeadStep(ref))
    /\ UNCHANGED <<layer_type, layer, current_arrhythmia, log>>
    /\ UNCHANGED other_vars

\* ------------------------------------------------------ HodgkinHuxleyModel

\* The ionic model's floating-point numbers are fixed-point numbers here: a
\* potential is a whole number of microvolts, a current of nanoamperes per
\* cm2, a gating variable of millionths, a rate of ten-thousandths per
\* millisecond, a time step of tenths of a millisecond.  A rate saturates at
\* RATE_CAP: with dt >= 0.1 ms a gate whose rate is larger is clamped to 0
\* or 1 by the step either way.  NaN is kept apart, in the state's field nan.

\* floor(a * b / 10^6), by three-digit limbs.
Mul6(a, b) ==
    LET a1 == a \div 1000
        a0 == a % 1000
        b1 == b \div 1000
        b0 == b % 1000
    IN  a1 * b1 + (a1 * b0 + a0 * b1 + (a0 * b0) \div 1000) \div 1000

\* floor(a * b / c), 0 < c < 46341
MulDiv(a, b, c) ==
    (a \div c) * b + (a % c) * (b \div c) + ((a % c) * (b % c)) \div c

\* floor(a * 10^6 / b), 0 <= a <= b
Div6(a, b) ==
    ((a * 1000) \div b) * 1000 + (((a * 1000) % b) * 1000) \div b

\* e^0 .. e^11 in ten-thousandths, e^-1 .. e^-12 in billionths.
EXP_POS ==
    <<10000, 27183, 73891, 200855, 545982, 1484132, 4034288, 10966332,
      29809580, 81030839, 220264658, 598741417>>
EXP_NEG ==
    <<367879441, 135335283, 49787068, 18315639, 6737947, 2478752, 911882,
      335463, 123410, 45400, 16702, 6144>>

\* The Taylor series of e^f, 0 <= f < 1, in millionths: terms k down to 1.
RECURSIVE ExpSeries(_, _, _)
ExpSeries(f6, k, t) ==
    IF k = 0 THEN t ELSE ExpSeries(f6, k - 1, 1000000 + Mul6(f6, t) \div k)

\* np.exp(x), x and the result in ten-thousandths; e^12 stands for every
\* larger value and 0 for every value below e^-12.
exp(x4) ==
    LET n == x4 \div 10000
        ef == ExpSeries((x4 % 10000) * 100, 10, 1000000)
    IN  IF n >= 12 THEN 1627547914
        ELSE IF n >= 0 THEN Mul6(ef, EXP_POS[n + 1])
        ELSE IF n < -12 THEN 0
        ELSE (Mul6(ef, EXP_NEG[-n]) + 50000) \div 100000

\* The largest x, in ten-thousandths, for which np.exp(x) is finite.
EXP_MAX == 7097827

\* np.exp(x) is inf.
exp_is_inf(x4) == x4 > EXP_MAX

\* 100 per millisecond.
RATE_CAP == 1000000

\* (num / den) * e, a rate
Rate(num, den, e) ==
    IF e >= (RATE_CAP * den) \div num THEN RATE_CAP ELSE (e * num) \div den

C_m == 1
g_Na == 120
g_K == 36
\* g_L = 0.3, in tenths
g_L == 3
E_Na == 50000
E_K == -77000
E_L == -54400
V_rest == -65000

\* The arguments of np.exp in the six rate functions.
alpha_m_arg(V) == -(V + 40000)
beta_m_arg(V) == (-(V + 65000) * 10) \div 18
alpha_h_arg(V) == (-(V + 65000)) \div 2
beta_h_arg(V) == -(V + 35000)
alpha_n_arg(V) == -(V + 55000)
beta_n_arg(V) == (-(V + 65000)) \div 8

\* 0.1 * x / (1 - np.exp(-x / 10)) as a rate, x in microvolts: 1.0 at x = 0,
\* 0.1 * x beyond 120 mV and 0 below -120 mV to within the resolution.
Ratio(x) ==
    LET d == 10000 - exp(-x)
    IN  IF x = 0 THEN 10000
        ELSE IF x <= -120000 THEN 0
        ELSE IF x >= 120000 THEN x
        ELSE IF d > 0 THEN (x * 10000) \div d
        ELSE (-x * 10000) \div (-d)

alpha_m(V) == Min(RATE_CAP, Ratio(V + 40000))
beta_m(V) == Rate(4, 1, exp(beta_m_arg(V)))
alpha_h(V) == Rate(7, 100, exp(alpha_h_arg(V)))
beta_h(V) == 100000000 \div (10000 + exp(beta_h_arg(V)))
alpha_n(V) == Min(RATE_CAP, Ratio(V + 55000) \div 10)
beta_n(V) == Rate(125, 1000, exp(beta_n_arg(V)))

\* alpha / (alpha + beta)
m_inf(V) == Div6(alpha_m(V), alpha_m(V) + beta_m(V))
h_inf(V) == Div6(alpha_h(V), alpha_h(V) + beta_h(V))
n_inf(V) == Div6(alpha_n(V), alpha_n(V) + beta_n(V))

\* 1 / tau = alpha + beta
inv_tau_m(V) == alpha_m(V) + beta_m(V)
inv_tau_h(V) == alpha_h(V) + beta_h(V)
inv_tau_n(V) == alpha_n(V) + beta_n(V)

Gates == {"m", "h", "n"}

\* reset: the resting values.  steps counts the step calls since.
reset(hh) ==
    [hh EXCEPT !.V = V_rest, !.m = m_inf(V_rest), !.h = h_inf(V_rest),
               !.n = n_inf(V_rest), !.nan = {}, !.steps = 0]

\* HodgkinHuxleyModel(dt_ms), dt in tenths of a millisecond.
HodgkinHuxleyModel(dt) ==
    reset([dt |-> dt, V |-> 0, m |-> 0, h |-> 0, n |-> 0, nan |-> {}, steps |-> 0])

I_Na(hh) == Mul6(g_Na * Mul6(Mul6(Mul6(hh.m, hh.m), hh.m), hh.h), hh.V - E_Na)
I_K(hh) == Mul6(g_K * Mul6(Mul6(hh.n, hh.n), Mul6(hh.n, hh.n)), hh.V - E_K)
I_L(hh) == (g_L * (hh.V - E_L)) \div 10
I_ion(hh) == I_Na(hh) + I_K(hh) + I_L(hh)

\* np.clip(x, 0, 1)
clip(x) == Min(Max(x, 0), 1000000)

\* x + (x_inf - x) / tau * dt, clipped
GateAfter(x, x_inf, inv_tau, dt) ==
    clip(x + (MulDiv(x_inf - x, inv_tau, 10000) * dt) \div 10)

\* The gates that are NaN after a step to the finite potential V.  Where
\* np.exp overflows in beta (m and n, whose alpha is 0 there), x_inf is
\* 0 / inf = 0 and tau is 1 / inf = 0: (0 - x) / 0 is -inf, clipped to 0, for
\* x > 0 and NaN for x = 0.  Where it overflows in alpha (h), x_inf is
\* inf / inf = NaN.  np.clip keeps a NaN.
NaNGates(hh, V) ==
    {g \in Gates :
        \/ g = "m" /\ exp_is_inf(beta_m_arg(V)) /\ hh.m = 0
        \/ g = "h" /\ exp_is_inf(alpha_h_arg(V))
        \/ g = "n" /\ exp_is_inf(beta_n_arg(V)) /\ hh.n = 0}

\* step(I_stim): one Euler step.  A NaN anywhere in the state makes I_ion,
\* then V, then every rate and gate NaN.
step(hh, I_stim) ==
    IF hh.nan # {}
    THEN [hh EXCEPT !.nan = Gates \cup {"V"}, !.steps = hh.steps + 1]
    ELSE
    LET dV == (I_stim - I_ion(hh)) \div C_m
        V == hh.V + (dV \div 10) * hh.dt
    IN  [hh EXCEPT
           !.V = V,
           !.m = IF exp_is_inf(beta_m_arg(V)) THEN 0
                 ELSE GateAfter(hh.m, m_inf(V), inv_tau_m(V), hh.dt),
           !.h = IF exp_is_inf(alpha_h_arg(V)) THEN 0
                 ELSE GateAfter(hh.h, h_inf(V), inv_tau_h(V), hh.dt),
           !.n = IF exp_is_inf(beta_n_arg(V)) THEN 0
                 ELSE GateAfter(hh.n, n_inf(V), inv_tau_n(V), hh.dt),
           !.nan = NaNGates(hh, V),
           !.steps = hh.steps + 1]

\* simulate_action_potential: its defaults, in tenths of a millisecond
DURATION_MS == 400
STIM_START == 100
STIM_DURATION == 20

\* No simulate_action_potential call: pc = "idle".  In a call, i is the loop
\* index; of V_trace[0 .. i-1], peak is the largest finite value, farthest
\* the largest finite distance from V_rest, last the last value and
\* nonfinite whether one of them is not finite.
IdleSim ==
    [pc |-> "idle", i |-> 0, n_steps |-> 0, stim_amplitude |-> 0,
     peak |-> V_rest, farthest |-> 0, last |-> V_rest, nonfinite |-> FALSE]

\* dt_hh = 0.1 ms, in tenths of a millisecond
DT_HH == 1

\* A stimulus window that no iteration falls into.
StimulusAt_never(s, dt) ==
    IF STIM_START <= s.i * dt * 10 /\ s.i * dt * 10 < STIM_START + STIM_DURATION
    THEN s.stim_amplitude ELSE 0

\* I_stim of iteration i
StimulusAt(s, dt) ==
    IF STIM_START <= s.i * dt /\ s.i * dt < STIM_START + STIM_DURATION
    THEN s.stim_amplitude ELSE 0

\* The step sizes an ionic model is constructed with, the stimulus currents
\* step is called with and the amplitudes of a simulated pulse: none, and
\* the two of RealisticLayer._get_stim_amplitude.
StepSizes == {DT_HH, 5}
Stimuli == {0, 20000, -200000000}
StimAmplitudes == {0, 20000, 25000}
\* The step calls a client makes on a model between two resets.
MaxDirectSteps == 2

Abs(x) == IF x < 0 THEN -x ELSE x

\* hh.step(I_stim), called directly
Step(I_stim) ==
    /\ sim.pc = "idle"
    /\ hh_model.steps < MaxDirectSteps
    /\ hh_model' = step(hh_model, I_stim)
    /\ UNCHANGED sim
    /\ UNCHANGED facade_vars

\* hh.reset(), called directly
Reset ==
    /\ sim.pc = "idle"
    /\ hh_model.steps > 0
    /\ hh_model' = reset(hh_model)
    /\ UNCHANGED sim
    /\ UNCHANGED facade_vars

\* simulate_action_potential(stim_amplitude=...) up to its loop
Simulate(stim_amplitude) ==
    /\ sim.pc \in {"idle", "done"}
    /\ hh_model' = reset(hh_model)
    /\ sim' = [IdleSim EXCEPT !.pc = "loop",
                              !.n_steps = (DURATION_MS * 10) \div hh_model.dt,
                              !.stim_amplitude = stim_amplitude]
    /\ UNCHANGED facade_vars

\* One iteration: V_trace[i] = self.step(I_stim)
SimulateStep ==
    /\ sim.pc = "loop"
    /\ sim.i < sim.n_steps
    /\ hh_model' = step(hh_model, StimulusAt(sim, hh_model.dt))
    /\ sim' = IF "V" \in hh_model'.nan
              THEN [sim EXCEPT !.i = sim.i + 1, !.nonfinite = TRUE]
              ELSE [sim EXCEPT !.i = sim.i + 1,
                               !.peak = Max(sim.peak, hh_model'.V),
                               !.farthest = Max(sim.farthest, Abs(hh_model'.V - V_rest)),
                               !.last = hh_model'.V]
    /\ UNCHANGED facade_vars

\* return V_trace
SimulateReturn ==
    /\ sim.pc = "loop"
    /\ sim.i = sim.n_steps
    /\ sim' = [sim EXCEPT !.pc = "done"]
    /\ UNCHANGED hh_model
    /\ UNCHANGED facade_vars

\* ---------------------------------------------------------- RealisticLayer

\* Integration steps per millisecond: dt_hh = 0.1 ms.
STEPS_PER_MS == 10
\* The forward problem's kernel spans 30 ms.
KERNEL_MS == 30
\* The longest action potential simulated per beat, in ms.
AP_MAX_MS == 400

\* A special-casing that leaves fine fibrillation to the beat train.
RealisticSpecial_coarse == {ASYSTOLE, VF_COARSE, TORSADES}

\* The rhythms RealisticLayer.generate handles without a beat train.
RealisticSpecial == {ASYSTOLE, VF_COARSE, VF_FINE, TORSADES}

\* rate = np.mean(template.rate_bpm), 60 if that is <= 0; twice the rate.
RealisticRate2(t) ==
    IF t.rate_bpm[1] + t.rate_bpm[2] <= 0 THEN 120
    ELSE t.rate_bpm[1] + t.rate_bpm[2]

\* n_steps = int(duration_ms / dt_hh), duration_ms = num_samples / sampling_rate * 1000
RealisticNSteps(num_samples) ==
    Trunc(num_samples * 1000 * STEPS_PER_MS, SAMPLING_RATE)

\* len(single_ap) = int(min(400, cycle_length_ms * 0.95) / dt), cycle 120000 / rate2 ms
RealisticAPLen(rate2) ==
    Min(AP_MAX_MS * STEPS_PER_MS, Trunc(120000 * 95 * STEPS_PER_MS, rate2 * 100))

\* next_cycle = int((cycle_length_ms + cycle_var) / dt_hh); the hrv argument
\* is not read, the jitter is template.rr_variability.
RealisticNextCycle(rate2, t, hrv, k) ==
    IF t.rr_variability > 0
    THEN Trunc(120000 * STEPS_PER_MS * (100 * DrawRes + k * t.rr_variability),
               rate2 * 100 * DrawRes)
    ELSE Trunc(120000 * STEPS_PER_MS, rate2)

\* np.convolve(ap, kernel, mode='same'): the longer of the two.
forward_problem_len(n_steps) == Max(n_steps, KERNEL_MS * STEPS_PER_MS)

\* round(a / b), b > 0, a >= 0
Round(a, b) == (2 * a + b) \div (2 * b)

\* A resampling by the fixed ratio of the two rates instead of by
\* target_samples / len(signal).
resample_len_ratio(siglen, target_samples) ==
    Round(siglen * SAMPLING_RATE, 1000 * STEPS_PER_MS)

\* _resample: zoom(signal, target_samples / len(signal)) has
\* round(len(signal) * factor) samples.
resample_len(siglen, target_samples) == Round(siglen * target_samples, siglen)

\* RealisticLayer.generate up to the loop over the leads or, for a rhythm
\* with beats, up to the loop of _generate_ap_train.
RealisticEnter(l, c) ==
    LET t == get_template(c.config.arrhythmia_type)
    IN  IF t = <<>> THEN Raised(c, "ValueError")
        ELSE IF c.config.arrhythmia_type \in RealisticSpecial
        THEN [c EXCEPT !.pc = "lead", !.li = 1, !.tmpl = t[1].arrhythmia_type]
        ELSE [c EXCEPT !.pc = "train", !.tmpl = t[1].arrhythmia_type,
                       !.rate2 = RealisticRate2(t[1]),
                       !.n_steps = RealisticNSteps(c.num_samples)]

\* One iteration of "while current_pos < n_steps": one action potential is
\* simulated and placed, the next onset is drawn.
RealisticBeatStep(c, k) ==
    Advance(c, RealisticNextCycle(c.rate2, TEMPLATES[c.tmpl], c.hrv, k))

\* single_ap[0]: the loop of simulate_action_potential starts from the state
\* it finds in self.hh_model, and its first step is taken before the
\* stimulus, which starts at 10 ms.
FirstSample(hh) ==
    LET s == step(hh, 0) IN [V |-> s.V, finite |-> s.nan = {}]

\* The action potential simulate_action_potential returns, of which first
\* is the first sample, placed in the train.
RealisticPlaceStep(c, first) ==
    [c EXCEPT !.pc = "train", !.single_ap = <<first>>]

\* The ionic model of a new RealisticLayer: HodgkinHuxleyModel(dt_ms=self.dt_hh).
NewModel == HodgkinHuxleyModel(DT_HH)

\* The first sample of an action potential simulated on a new layer.
FirstSampleAlone == FirstSample(NewModel)

\* One iteration with no other user of the layer's ionic model: the loop
\* starts in the state reset() leaves.
RealisticBeat ==
    /\ call.pc = "train"
    /\ call.pos < call.n_steps
    /\ LET placed == RealisticPlaceStep(call, FirstSample(reset(hh_model)))
           alone == RealisticPlaceStep(ref, FirstSampleAlone)
       IN  \E k \in Draws :
             Commit(RealisticBeatStep(placed, k), RealisticBeatStep(alone, k))
    /\ hh_model' = reset(hh_model)
    /\ UNCHANGED <<layer_type, layer, current_arrhythmia, log, switch, sim>>

\* The same iteration when another generate call runs on the layer.  First
\* simulate_action_potential is entered and resets the shared model...
RealisticSimulateStep(c) == [c EXCEPT !.pc = "ap"]

RealisticSimulate ==
    /\ call.pc = "train"
    /\ call.pos < call.n_steps
    /\ Commit(RealisticSimulateStep(call), RealisticSimulateStep(ref))
    /\ hh_model' = reset(hh_model)
    /\ UNCHANGED <<layer_type, layer, current_arrhythmia, log, switch, sim>>

\* The steps of the other call that fall between two steps of this one.
MaxOtherSteps == 1

\* ... then the other call, in the loop of its own simulate_action_potential on
\* the same self.hh_model, takes a step with or without its stimulus ...
RealisticOtherStep ==
    /\ call.pc = "ap"
    /\ hh_model.steps < MaxOtherSteps
    /\ \E I_stim \in StimAmplitudes : hh_model' = step(hh_model, I_stim)
    /\ UNCHANGED <<sim, facade_vars>>

\* ... and then this call's loop runs from the model as it finds it, the
\* action potential is placed, the next onset drawn and the model reset.
\* The call alone on its layer finds the state reset() left.
RealisticPlace ==
    /\ call.pc = "ap"
    /\ LET placed == RealisticPlaceStep(call, FirstSample(hh_model))
           alone == RealisticPlaceStep(ref, FirstSampleAlone)
       IN  \E k \in Draws :
             Commit(RealisticBeatStep(placed, k), RealisticBeatStep(alone, k))
    /\ hh_model' = reset(hh_model)
    /\ UNCHANGED <<layer_type, layer, current_arrhythmia, log, switch, sim>>

\* The train is complete: on to the loop over the leads.
RealisticFinishTrainStep(c) == [c EXCEPT !.pc = "lead", !.li = 1]

RealisticFinishTrain ==
    /\ call.pc = "train"
    /\ call.pos >= call.n_steps
    /\ Commit(RealisticFinishTrainStep(call), RealisticFinishTrainStep(ref))
    /\ UNCHANGED <<layer_type, layer, current_arrhythmia, log>>
    /\ UNCHANGED other_vars

\* One lead: of the asystole loop, of _generate_vf_realistic, of
\* _generate_torsades_realistic, or forward problem, noise and resampling.
RealisticLeadStep(c) ==
    LET a == c.config.arrhythmia_type
        n == c.num_samples
    IN  IF a = ASYSTOLE
        THEN StoreLead(c, Lead(n, "zeros", "tenth"))
        ELSE IF a \in {VF_COARSE, VF_FINE}
        THEN IF n = 0
             THEN Raised(c, "ValueError")   \* np.max of an empty array
             ELSE StoreLead(c, Lead(n, "vf", "full"))
        ELSE IF a = TORSADES
        THEN StoreLead(c, Lead(n, "torsades", "full"))
        ELSE IF c.n_steps = 0
        THEN Raised(c, "ValueError")        \* np.convolve of an empty array
        ELSE StoreLead(c, Lead(resample_len(forward_problem_len(c.n_steps), n),
                               "beats", "full"))

RealisticLead ==
    /\ call.pc = "lead"
    /\ layer.kind = "realistic"
    /\ ~LeadsDone(call)
    /\ Commit(RealisticLeadStep(call), RealisticLeadStep(ref))
    /\ UNCHANGED <<layer_type, layer, current_arrhythmia, log>>
    /\ UNCHANGED other_vars

\* ----------------------------------------------------------------- facade

\* The layer's generate up to its first loop.
Enter(l, c) ==
    CASE l.kind = "simple" -> SimpleEnter(l, c)
      [] l.kind = "intermediate" -> IntermediateEnter(l, c)
      [] l.kind = "realistic" -> RealisticEnter(l, c)

\* The fields of the layer instance once generate has entered.
LayerAfterEnter(l, c) ==
    CASE l.kind = "simple" ->
           IF get_template(c.config.arrhythmia_type) = <<>> THEN l
           ELSE SimpleTemplateAfter(l, get_template(c.config.arrhythmia_type)[1])
      [] l.kind = "intermediate" ->
           [l EXCEPT !.params =
               IntermediateParamsAfter(l, update_params_for_arrhythmia(l.params, c.config))]
      [] l.kind = "realistic" -> l

\* The arguments of generate and what the facade derives from them.
NewCall(a, d, lds, h) ==
    [IdleCall EXCEPT !.arrhythmia = a, !.duration = d,
                     !.leads = IF lds = <<>> THEN FacadeLeads ELSE lds,
                     !.config = get_arrhythmia_config(a),
                     !.num_samples = NumSamples(d), !.hrv = h]

\* CardiacSimulator.generate up to and including the entry of the active
\* layer's generate.
Generate(a, d, lds, h) ==
    /\ call.pc = "idle"
    /\ current_arrhythmia' = a
    /\ Commit(Enter(layer, NewCall(a, d, lds, h)),
              Enter(create_layer(layer.kind), NewCall(a, d, lds, h)))
    /\ layer' = LayerAfterEnter(layer, NewCall(a, d, lds, h))
    /\ UNCHANGED <<layer_type, log>>
    /\ UNCHANGED other_vars

\* The layer's "return signals" and the facade's "return ECGSignal(...)".
Return ==
    /\ call.pc = "lead"
    /\ LeadsDone(call)
    /\ record' = <<ECGSignal(call)>>
    /\ call' = IdleCall
    /\ ref' = IdleCall
    /\ err' = <<>>
    /\ outgoing_state' = <<>>
    /\ UNCHANGED previous_layer
    /\ UNCHANGED <<layer_type, layer, current_arrhythmia, log>>
    /\ UNCHANGED other_vars

\* The rhythms generated while other threads use the facade.
ThreadRhythms == {NORMAL_SINUS, WPW}

\* The layer names switch_layer is called with; LayerType("bogus") raises.
LayerNames == LayerTypes \cup {"bogus"}

\* A switch_layer without its set_state call.
SwitchedLayer_fresh(old, new_layer) == create_layer(new_layer)

\* The new layer instance of switch_layer: created, then handed the state
\* snapshot of the outgoing one.
SwitchedLayer(old, new_layer) ==
    LET current_state == get_state(old)
    IN  set_state(create_layer(new_layer), current_state)

\* A switch_layer that assigns self.layer_type before the name is looked
\* up: a name that is no layer's fails in _create_layer.
SwitchLayer_unvalidated(new_layer) ==
    /\ call.pc = "idle"
    /\ layer_type' = new_layer
    /\ IF new_layer \notin LayerTypes
       THEN /\ err' = <<Exception("switch_layer", "KeyError", "", FALSE, {})>>
            /\ outgoing_state' = <<>>
            /\ UNCHANGED <<layer, previous_layer>>
       ELSE /\ layer' = SwitchedLayer(layer, new_layer)
            /\ err' = <<>>
            /\ outgoing_state' = <<layer.state>>
            /\ previous_layer' = <<Previous(layer, get_state(layer))>>
    /\ UNCHANGED <<current_arrhythmia, call, record, log, ref>>
    /\ UNCHANGED other_vars

\* CardiacSimulator.switch_layer
SwitchLayer(new_layer) ==
    /\ call.pc = "idle"
    /\ IF new_layer \notin LayerTypes
       THEN /\ err' = <<Exception("switch_layer", "ValueError", "", FALSE, {})>>
            /\ outgoing_state' = <<>>
            /\ UNCHANGED <<layer_type, layer, previous_layer>>
       ELSE /\ layer_type' = new_layer
            /\ layer' = SwitchedLayer(layer, new_layer)
            /\ err' = <<>>
            /\ outgoing_state' = <<layer.state>>
            /\ previous_layer' = <<Previous(layer, get_state(layer))>>
    /\ UNCHANGED <<current_arrhythmia, call, record, log, ref>>
    /\ UNCHANGED other_vars

\* A client stores continuity information in the active layer:
\* BaseLayer.set_state({k: v}).
SetState(k, v) ==
    /\ call.pc = "idle"
    /\ layer' = set_state(layer, [x \in {k} |-> v])
    /\ outgoing_state' = <<>>
    /\ previous_layer' = PreviousAfterSetState(previous_layer, k)
    /\ UNCHANGED <<layer_type, current_arrhythmia, call, record, err, log, ref>>
    /\ UNCHANGED other_vars

\* A client changes a value stored in the active layer's state in place, as
\* in layer.get_state()[k].append(...): the object changes, no dictionary.
MutateStoredValue(k, v) ==
    /\ call.pc = "idle"
    /\ k \in DOMAIN layer.state
    /\ layer.state[k] # v
    /\ layer' = [layer EXCEPT !.state[k] = v]
    /\ outgoing_state' = <<>>
    /\ previous_layer' = PreviousAfterMutation(previous_layer, k, v)
    /\ UNCHANGED <<layer_type, current_arrhythmia, call, record, err, log, ref>>
    /\ UNCHANGED other_vars

\* ------------------------------------------- switch_layer, statement by statement

\* switch_layer takes no lock: another thread's generate can run between any
\* two of its statements.  The call in progress: the statement it is about to
\* execute, its argument, its local current_state and the instance it found.
IdleSwitch ==
    [pc |-> "idle", new_layer |-> "None", current_state |-> EmptyState,
     old |-> create_layer("simple")]

\* new_layer = LayerType(new_layer.lower()); current_state = self._layer.get_state()
SwitchGetState(new_layer) ==
    /\ switch.pc = "idle"
    /\ call.pc = "idle"
    /\ new_layer \in LayerTypes
    /\ switch' = [pc |-> "layer_type", new_layer |-> new_layer,
                  current_state |-> get_state(layer), old |-> layer]
    /\ UNCHANGED <<layer_type, layer, current_arrhythmia, call, record, err, log,
                   ref, outgoing_state, previous_layer, hh_model, sim>>

\* self.layer_type = new_layer
SwitchSetLayerType ==
    /\ switch.pc = "layer_type"
    /\ call.pc = "idle"
    /\ layer_type' = switch.new_layer
    /\ switch' = [switch EXCEPT !.pc = "layer"]
    /\ UNCHANGED <<layer, current_arrhythmia, call, record, err, log, ref,
                   outgoing_state, previous_layer, hh_model, sim>>

\* self._layer = self._create_layer(new_layer)
SwitchSetLayer ==
    /\ switch.pc = "layer"
    /\ call.pc = "idle"
    /\ layer' = create_layer(switch.new_layer)
    /\ switch' = [switch EXCEPT !.pc = "set_state"]
    /\ UNCHANGED <<layer_type, current_arrhythmia, call, record, err, log, ref,
                   outgoing_state, previous_layer, hh_model, sim>>

\* self._layer.set_state(current_state), and switch_layer returns.
SwitchSetState ==
    /\ switch.pc = "set_state"
    /\ call.pc = "idle"
    /\ layer' = set_state(layer, switch.current_state)
    /\ switch' = IdleSwitch
    /\ err' = <<>>
    /\ outgoing_state' = <<switch.current_state>>
    /\ previous_layer' = <<Previous(switch.old, switch.current_state)>>
    /\ UNCHANGED <<layer_type, current_arrhythmia, call, record, log, ref,
                   hh_model, sim>>

\* -------------------------------------------------------------- ECGSignal

\* ECGSignal.get_lead
GetLead(lead) ==
    /\ call.pc = "idle"
    /\ record # <<>>
    /\ err' = IF lead \notin DOMAIN record[1].signals
              THEN <<Exception("get_lead", "ValueError", lead, TRUE,
                               DOMAIN record[1].signals)>>
              ELSE <<>>
    /\ outgoing_state' = <<>>
    /\ previous_layer' = <<>>
    /\ UNCHANGED <<layer_type, layer, current_arrhythmia, call, record, log, ref>>
    /\ UNCHANGED other_vars

\* ECGSignal.detect_peaks: self.signals[lead] raises KeyError(lead).
DetectPeaks(lead) ==
    /\ call.pc = "idle"
    /\ record # <<>>
    /\ err' = IF lead \notin DOMAIN record[1].signals
              THEN <<Exception("detect_peaks", "KeyError", lead, FALSE, {})>>
              ELSE <<>>
    /\ outgoing_state' = <<>>
    /\ previous_layer' = <<>>
    /\ UNCHANGED <<layer_type, layer, current_arrhythmia, call, record, log, ref>>
    /\ UNCHANGED other_vars

\* ------------------------------------------------------------------- spec

Init ==
    /\ layer_type \in LayerTypes
    /\ layer = create_layer(layer_type)
    /\ current_arrhythmia = "None"
    /\ call = IdleCall
    /\ record = <<>>
    /\ err = <<>>
    /\ log = <<>>
    /\ ref = IdleCall
    /\ outgoing_state = <<>>
    /\ previous_layer = <<>>
    /\ switch = IdleSwitch
    /\ hh_model = HodgkinHuxleyModel(DT_HH)
    /\ sim = IdleSim

Next ==
    \/ \E a \in Rhythms, d \in Durations, lds \in LeadLists, h \in Hrvs :
         Generate(a, d, lds, h)
    \/ SimpleLead
    \/ SimpleBeat
    \/ SimpleFinishLead
    \/ IntermediateLead
    \/ IntermediateBeat
    \/ IntermediateFinishLead
    \/ RealisticBeat
    \/ RealisticFinishTrain
    \/ RealisticLead
    \/ Return
    \/ \E new_layer \in LayerNames : SwitchLayer(new_layer)
    \/ \E k \in StateKeys, v \in StateVals : SetState(k, v)
    \/ \E k \in StateKeys, v \in StateVals : MutateStoredValue(k, v)
    \/ \E lead \in LeadNames : GetLead(lead)
    \/ \E lead \in LeadNames : DetectPeaks(lead)

Spec == Init /\ [][Next]_vars

\* The facade used from several threads: a client that stores continuity
\* state, a thread that calls generate, a thread whose switch_layer call
\* runs statement by statement and is suspended while a generate call is
\* under way, and a second generate call on the realistic layer, of which
\* the steps it takes on the shared ionic model are kept.
NextThreads ==
    \/ \E a \in ThreadRhythms, d \in Durations, h \in Hrvs :
         Generate(a, d, <<>>, h)
    \/ SimpleLead
    \/ SimpleBeat
    \/ SimpleFinishLead
    \/ IntermediateLead
    \/ IntermediateBeat
    \/ IntermediateFinishLead
    \/ RealisticSimulate
    \/ RealisticOtherStep
    \/ RealisticPlace
    \/ RealisticFinishTrain
    \/ RealisticLead
    \/ Return
    \/ \E k \in StateKeys, v \in StateVals : SetState(k, v)
    \/ \E new_layer \in LayerTypes : SwitchGetState(new_layer)
    \/ SwitchSetLayerType
    \/ SwitchSetLayer
    \/ SwitchSetState

SpecThreads == Init /\ [][NextThreads]_vars

\* A step of the generate call in progress: the interpreter goes on
\* executing a call that has something left to execute.
CallStep ==
    \/ SimpleLead
    \/ SimpleBeat
    \/ SimpleFinishLead
    \/ IntermediateLead
    \/ IntermediateBeat
    \/ IntermediateFinishLead
    \/ RealisticBeat
    \/ RealisticFinishTrain
    \/ RealisticLead
    \/ Return

\* A facade on which generate calls are made one after the other, each
\* running until it returns or raises.
NextCalls ==
    \/ \E a \in Rhythms, d \in Durations, lds \in LeadLists, h \in Hrvs :
         Generate(a, d, lds, h)
    \/ CallStep

\* One iteration of a beat loop, and its guard: ENABLED <<BeatIteration>>_vars
\* written out.
BeatIteration == SimpleBeat \/ IntermediateBeat \/ RealisticBeat

BeatIterationEnabled ==
    \/ call.pc = "beats" /\ call.pos < call.num_samples
    \/ call.pc = "train" /\ call.pos < call.n_steps

\* The interpreter goes on executing a call that has a step to take: weak
\* fairness of the steps of a generate call.  That of the loop iterations
\* is stated with their guard in the place of ENABLED.
CallFairness ==
    /\ WF_vars(SimpleLead \/ SimpleFinishLead)
    /\ WF_vars(IntermediateLead \/ IntermediateFinishLead)
    /\ WF_vars(RealisticFinishTrain \/ RealisticLead \/ Return)
    /\ <>[]BeatIterationEnabled => []<><<BeatIteration>>_vars

SpecCalls == Init /\ [][NextCalls]_vars /\ CallFairness

\* The ionic model on its own, as RealisticLayer and any other client use
\* it: constructed with a step size, stepped, reset, and run for one action
\* potential.
InitHH ==
    /\ layer_type = "realistic"
    /\ layer = create_layer(layer_type)
    /\ current_arrhythmia = "None"
    /\ call = IdleCall
    /\ record = <<>>
    /\ err = <<>>
    /\ log = <<>>
    /\ ref = IdleCall
    /\ outgoing_state = <<>>
    /\ previous_layer = <<>>
    /\ switch = IdleSwitch
    /\ \E dt \in StepSizes : hh_model = HodgkinHuxleyModel(dt)
    /\ sim = IdleSim

NextHH ==
    \/ \E I_stim \in Stimuli : Step(I_stim)
    \/ Reset
    \/ \E stim_amplitude \in StimAmplitudes : Simulate(stim_amplitude)
    \/ SimulateStep
    \/ SimulateReturn

SpecHH == InitHH /\ [][NextHH]_vars

\* ----------------------------------------------------------------- claims

\* C1: every lead of a returned record, and every lead a running call has
\* produced so far, has exactly floor(duration_seconds * sampling_rate)
\* samples, in each layer, for every rhythm and duration.
C1_SampleCount ==
    /\ record # <<>> =>
         \A l \in DOMAIN record[1].signals :
            record[1].signals[l].len =
                (record[1].duration * record[1].sampling_rate) \div 1000
    /\ \A l \in DOMAIN call.signals :
          call.signals[l].len = (call.duration * SAMPLING_RATE) \div 1000

\* The biophysical layer has resampled a beat train of 21 ms, shorter than
\* the forward problem's kernel, to the 10 samples asked for.
C1_Witness ==
    /\ layer.kind = "realistic"
    /\ call.pc = "lead"
    /\ LeadsDone(call)
    /\ call.duration = 21
    /\ \A l \in DOMAIN call.signals :
          call.signals[l].content = "beats" /\ call.signals[l].len = 10
    /\ DOMAIN call.signals # {}

\* C2: the mapping a generate call returns has exactly the requested leads
\* as its keys, and a call that raised returned nothing.
C2_AllRequestedLeads ==
    /\ record # <<>> => DOMAIN record[1].signals = Range(record[1].leads)
    /\ (err # <<>> /\ err[1].op = "generate") => record = <<>>

\* A record for two requested leads has been returned.
C2_Witness ==
    /\ record # <<>>
    /\ record[1].leads = <<"I", "II">>
    /\ DOMAIN record[1].signals = {"I", "II"}

\* C3: at every point of a generate call, what the call has computed is what
\* the same call with the same draws computes on a newly constructed layer of
\* the same kind: nothing an earlier call or set_state left on the layer
\* enters it.
C3_SameAsOnNewLayer == ref = call

\* A call on a parametric layer that carries state from earlier operations,
\* with parameters derived for the rhythm, has scheduled beats.
C3_Witness ==
    /\ layer.kind = "intermediate"
    /\ layer.state # EmptyState
    /\ call.pc = "beats"
    /\ call.nbeats > 0
    /\ call.params # init_params
    /\ ref = call

\* C4: a generate call for asystole (rate range (0, 0)) never raises, and
\* every lead it produces is the flat branch's zero signal.
C4_AsystoleFlatBranch ==
    current_arrhythmia = ASYSTOLE =>
        /\ err = <<>> \/ err[1].op # "generate"
        /\ \A l \in DOMAIN call.signals : call.signals[l].content = "zeros"

C6_FallbackSignalled ==
    /\ (call.pc # "idle" /\ call.arrhythmia \notin CatalogTypes) => log # <<>>
    /\ (record # <<>> /\ record[1].arrhythmia \notin CatalogTypes) =>
          log # <<>> \/ "fallback" \in DOMAIN record[1]

\* C7: the error of a request for a lead the record lacks names the lead and
\* lists the leads the record has.
C7_LookupErrorListsLeads ==
    (err # <<>> /\ err[1].op \in {"get_lead", "detect_peaks"}) =>
        /\ err[1].requested \notin DOMAIN record[1].signals
        /\ err[1].lists_available
        /\ err[1].available = DOMAIN record[1].signals

\* C8: right after a switch_layer, the active layer's state snapshot holds
\* every key of the outgoing layer's state, with the same value.
C8_StatePreserved ==
    outgoing_state # <<>> =>
        \A k \in DOMAIN outgoing_state[1] :
            /\ k \in DOMAIN get_state(layer)
            /\ get_state(layer)[k] = outgoing_state[1][k]

\* A layer with a stored key has just been switched out.
C8_Witness ==
    /\ outgoing_state # <<>>
    /\ outgoing_state[1] # EmptyState
    /\ layer.state = outgoing_state[1]

\* One sample, in the unit the running loop counts beat offsets in: samples,
\* or integration steps in the biophysical layer's train.
SampleUnit(c) ==
    IF c.pc = "train" THEN (1000 * STEPS_PER_MS) \div SAMPLING_RATE ELSE 1

\* C9: for a rhythm whose configuration and template are both of class
\* 'regular', generated with hrv = 0, the intervals scheduled so far lie
\* within one sample of a common value.
C9_RegularConstantInterval ==
    (/\ call.pc \in {"beats", "train"}
     /\ call.nbeats > 0
     /\ call.hrv = 0
     /\ call.config.rate_regularity = "regular"
     /\ TEMPLATES[call.config.arrhythmia_type].regularity = "regular") =>
        call.rr_hi - call.rr_lo <= 2 * SampleUnit(call)

\* C10: in the lookup and the parametric layer no scheduled interval is
\* below the safety floor of 100 samples.
C10_SafetyFloor ==
    (call.pc = "beats" /\ call.nbeats > 0) => call.rr_lo >= SAFETY_MINIMUM

\* rr_var of _generate_ap_train, as <<num, den>>: the template's figure.
RealisticRRVar(t) == <<t.rr_variability, 100>>

\* The bound of the fractional jitter a layer of this kind applies to the
\* intervals of a rhythm, as <<num, den>>.
JitterBound(kind, a, hrv) ==
    CASE kind = "simple" -> SimpleRRVar(TEMPLATES[a], hrv)
      [] kind = "intermediate" -> IntermediateVariation(get_arrhythmia_config(a), hrv)
      [] kind = "realistic" -> RealisticRRVar(TEMPLATES[a])

\* p < q for fractions with positive denominators.
FracLess(p, q) == p[1] * q[2] < q[1] * p[2]

\* C11: on the layer that runs a call for atrial fibrillation, the jitter
\* bound of that call is strictly larger than the bound the same layer
\* applies to normal sinus rhythm at the same hrv.
C11_FibrillationJitterLarger ==
    (call.pc # "idle" /\ call.arrhythmia = ATRIAL_FIBRILLATION) =>
        FracLess(JitterBound(layer.kind, NORMAL_SINUS, call.hrv),
                 JitterBound(layer.kind, ATRIAL_FIBRILLATION, call.hrv))

\* C12: the leads a call has produced were all rendered from one beat
\* schedule: the same target rate and the same beats.
C12_OneScheduleForAllLeads ==
    \A l1 \in DOMAIN call.sched : \A l2 \in DOMAIN call.sched :
        call.sched[l1] = call.sched[l2]

\* C13: no step of a generate call, from its entry to its return or its
\* exception, changes a field of the layer instance or of the facade.
C13_GenerateHasNoSideEffect ==
    [][(call.pc # "idle" \/ call'.pc # "idle") =>
          /\ layer' = layer
          /\ layer_type' = layer_type
          /\ current_arrhythmia' = current_arrhythmia]_vars

\* C14: throughout a call the configuration the call was handed is the
\* catalog's (or the default) record for the requested type, unmodified; the
\* parametric layer's base parameter table is the one it was constructed
\* with; and the parameters a parametric call uses are those derived from
\* that table and the call's configuration alone.
C14_TablesUntouched ==
    /\ call.pc # "idle" => call.config = get_arrhythmia_config(call.arrhythmia)
    /\ layer.kind = "intermediate" => layer.params = init_params
    /\ (call.pc # "idle" /\ layer.kind = "intermediate") =>
          call.params = update_params_for_arrhythmia(init_params, call.config)

\* A parametric call for Wolff-Parkinson-White, whose configuration sets the
\* PR interval and the QRS duration, is at its second lead.
C14_Witness ==
    /\ layer.kind = "intermediate"
    /\ call.pc = "lead"
    /\ call.li = 2
    /\ call.arrhythmia = WPW
    /\ call.params.pr_interval = Mean(ARRHYTHMIA_CONFIGS[WPW].pr_interval)
    /\ call.params # layer.params

\* C15: no operation on the active layer's state, be it a set_state or a
\* change inside a stored value, changes what the state of the layer
\* instance that handed its snapshot over shows.
C15_SnapshotNotShared ==
    [][(previous_layer # <<>> /\ previous_layer' # <<>> /\ outgoing_state' = <<>>) =>
          previous_layer'[1].state = previous_layer[1].state]_vars

\* The facade as switch_layer leaves it: the recorded type names the active
\* instance, and an instance installed by a switch_layer call still under way
\* holds every entry the call took from the outgoing one.
SwapComplete ==
    /\ layer_type = layer.kind
    /\ switch.pc = "set_state" =>
          \A k \in DOMAIN switch.current_state :
              k \in DOMAIN layer.state /\ layer.state[k] = switch.current_state[k]

\* C17: no generate call observes the facade in the middle of a layer swap:
\* whenever a generate call enters, also while a switch_layer call of another
\* thread is under way, the recorded layer type names the active layer
\* instance and that instance already holds the transferred state.
C17_NoMidSwapView ==
    [][(call.pc = "idle" /\ call'.pc # "idle") => SwapComplete]_vars

\* C18: after every integration step of the ionic model, whatever the
\* stimulus and whatever the state before the step, each of the gating
\* variables m, h and n is a number in [0, 1].
C18_GatesInUnitInterval ==
    hh_model.steps > 0 =>
        /\ hh_model.nan \cap Gates = {}
        /\ hh_model.m \in 0..1000000
        /\ hh_model.h \in 0..1000000
        /\ hh_model.n \in 0..1000000

\* C19: when the membrane potential becomes non-finite the integration ends
\* in a fatal error: no potential trace is returned, and so no signal
\* computed, that holds a sample taken from a non-finite potential.
C19_UnstableIsFatal == sim.pc = "done" => ~sim.nonfinite

\* The distance from V_rest, in microvolts, that counts as at rest.
RestEpsilon == 100

\* C20: with the layer's step size, an action potential integrated from the
\* reset state with zero stimulus stays within RestEpsilon of V_rest at
\* every step; integrated with a configured stimulus pulse, the potential
\* rises above 0 mV and is back at rest when the integration returns.
C20_RestAndActionPotential ==
    /\ (sim.pc # "idle" /\ hh_model.dt = DT_HH /\ sim.stim_amplitude = 0) =>
          ~sim.nonfinite /\ sim.farthest <= RestEpsilon
    /\ (sim.pc = "done" /\ hh_model.dt = DT_HH /\ sim.stim_amplitude > 0) =>
          /\ ~sim.nonfinite
          /\ sim.peak > 0
          /\ Abs(sim.last - V_rest) <= RestEpsilon

C20_Witness ==
    /\ sim.pc = "done"
    /\ hh_model.dt = DT_HH
    /\ sim.stim_amplitude = 20000
    /\ sim.i = 4000
    /\ sim.peak > 0
    /\ sim.farthest > RestEpsilon

\* C16: generate is reentrant: a call interleaved with another call on the
\* same layer places the action potentials it places when run alone, to
\* within RestEpsilon (ref is the same call, with the same draws, alone on
\* its layer).
C16_Reentrant ==
    call.pc # "idle" =>
        /\ Len(call.single_ap) = Len(ref.single_ap)
        /\ \A j \in DOMAIN call.single_ap :
              /\ call.single_ap[j].finite = ref.single_ap[j].finite
              /\ Abs(call.single_ap[j].V - ref.single_ap[j].V) <= RestEpsilon

\* The beat loop's iteration on the layer of this kind, k the draw.
BeatStep(kind, c, k) ==
    IF kind = "simple" THEN SimpleBeatStep(c, k) ELSE IntermediateBeatStep(c, k)

\* The rhythms with a repeating pattern: the configuration's class is
\* 'regularly_irregular', or the template carries one of the pattern tags of
\* a repeating group of beats.
Patterned(c) ==
    \/ c.config.rate_regularity = "regularly_irregular"
    \/ TEMPLATES[c.config.arrhythmia_type].pattern \in {"wenckebach", "bigeminy"}

\* C21: for a patterned rhythm the interval a beat is scheduled with is a
\* function of the base cycle and the beat index: it is the one the loop
\* schedules with any other draw.
C21_PatternedIntervalsDeterministic ==
    [][(/\ call.pc = "beats" /\ call'.pc = "beats"
        /\ call'.nbeats = call.nbeats + 1
        /\ Patterned(call)) =>
          \A k \in Draws : BeatStep(layer.kind, call, k).pos = call'.pos]_vars

\* C22: in the lookup and the parametric layer the beats are written
\* additively: the buffer holds every sample every placed beat wrote into
\* it, none replaced by a later beat.
C22_BeatsWrittenAdditively ==
    call.pc = "beats" => ~call.buffer.replaced

\* C23: in the lookup layer the beats of a 'bigeminy' rhythm alternate in
\* shape: the beat with an odd index, and no other, is rendered from the PVC
\* template, and a beat with an even index has the sinus shape, a P wave
\* and a narrow QRS complex.
C23_BigeminyAlternates ==
    (/\ call.pc = "beats" /\ layer.kind = "simple" /\ call.beat # <<>>
     /\ TEMPLATES[call.tmpl].pattern = "bigeminy") =>
        LET b == call.beat[1]
        IN  /\ b.beat.template = VENT_PVC <=> b.index % 2 = 1
            /\ b.index % 2 = 0 =>
                  b.beat.p_wave # <<>> /\ b.beat.shape = "qrs"

\* The beat loops: of the lookup and the parametric layer, and of the
\* biophysical layer's train.
InBeatLoop(c) == c.pc \in {"beats", "train"}

\* The bound of the running loop: num_samples, or n_steps in the train.
LoopBound(c) == IF c.pc = "train" THEN c.n_steps ELSE c.num_samples

SharedCycle(c, bpm) == SampleUnit(c) * IntermediateBaseRR(2 * bpm)

\* C25: the intervals of the biophysical layer's train are intervals the
\* shared scheduling algorithm gives for one rate of the configuration's
\* rate range: with v the jitter fraction of the regularity class and the
\* hrv argument, there is a base cycle B between those of the two ends of
\* the range with every interval in [B (1 - v), B (1 + v)], to the
\* truncation of the two grids.
C25_TrainFollowsSharedSchedule ==
    (/\ call.pc = "train" /\ call.nbeats > 0
     /\ call.config.rate_range[1] > 0) =>
        LET v == IntermediateVariation(call.config, call.hrv)
            tol == 2 * SampleUnit(call)
            lo == call.rr_lo + tol
            hi == call.rr_hi - tol
        IN  /\ hi * (v[2] - v[1]) <= lo * (v[2] + v[1])
            /\ hi * v[2] <= SharedCycle(call, call.config.rate_range[1]) * (v[2] + v[1])
            /\ lo * v[2] >= SharedCycle(call, call.config.rate_range[2]) * (v[2] - v[1])

\* C26: in the lookup and the parametric layer the rate the beats of a call
\* are scheduled at lies in the rate_range of the configuration the call was
\* handed.
C26_RateFromConfigRange ==
    (call.pc = "beats" /\ layer.kind \in {"simple", "intermediate"}) =>
        /\ 2 * call.config.rate_range[1] <= call.rate2
        /\ call.rate2 <= 2 * call.config.rate_range[2]

\* A call of the biophysical layer for asystole, coarse or fine ventricular
\* fibrillation or torsades is under way.
ContinuousRhythmCall ==
    /\ call.pc # "idle"
    /\ layer.kind = "realistic"
    /\ call.arrhythmia \in {ASYSTOLE, VF_COARSE, VF_FINE, TORSADES}

\* C27: a call of the biophysical layer for ventricular fibrillation
\* (coarse or fine), torsades or asystole is never in the beat train: it
\* schedules no beat, allocates no train and takes no sample from the ionic
\* model, and every lead of an asystole call is zeros plus the noise term at
\* a tenth of the noise level.
C27_ContinuousRhythmsBypassBeats ==
    ContinuousRhythmCall =>
        /\ call.pc = "lead"
        /\ call.nbeats = 0 /\ call.pos = 0 /\ call.n_steps = 0
        /\ call.single_ap = <<>>
        /\ call.arrhythmia = ASYSTOLE =>
              \A l \in DOMAIN call.signals :
                  call.signals[l] = Lead(call.num_samples, "zeros", "tenth")

\* Every lead of a fine-fibrillation call and of an asystole call has been
\* rendered.
C27_Witness ==
    /\ ContinuousRhythmCall
    /\ call.arrhythmia \in {VF_FINE, ASYSTOLE}
    /\ call.num_samples > 0
    /\ Len(call.leads) = 2
    /\ DOMAIN call.signals = Range(call.leads)

\* C28: in the cardiac cycle the lookup layer renders for a rhythm of the
\* catalog, the P wave starts before the QRS complex, the QRS complex before
\* the T wave, and the QRS complex starts inside the beat, for the
\* components the cycle has.
C28_ComponentsInOrder ==
    (/\ call.pc = "beats" /\ layer.kind = "simple" /\ call.beat # <<>>
     /\ call.arrhythmia \in CatalogTypes) =>
        LET b == call.beat[1].beat
        IN  /\ (b.p_wave # <<>> /\ b.qrs_complex # <<>>) =>
                  b.p_wave[1] < b.qrs_complex[1]
            /\ (b.qrs_complex # <<>> /\ b.t_wave # <<>>) =>
                  b.qrs_complex[1] < b.t_wave[1]
            /\ b.qrs_complex # <<>> =>
                  b.qrs_complex[1] >= 0 /\ b.qrs_complex[1] < b.len

\* The step is the entry of a generate call for rhythm a.
GenerateOf(a) ==
    \E d \in Durations, lds \in LeadLists, h \in Hrvs : Generate(a, d, lds, h)

current_layer == layer_type

\* C30: between calls and during a generate call current_layer names the
\* type of the layer instance generate delegates to, and a switch_layer
\* with a name that is no layer's leaves the layer type, the instance and
\* its state as they were.
C30_CurrentLayerNamesActiveLayer ==
    /\ [](current_layer = layer.kind /\ current_layer \in LayerTypes)
    /\ [][(\E name \in LayerNames \ LayerTypes : SwitchLayer(name)) =>
            /\ layer_type' = layer_type
            /\ layer' = layer
            /\ get_state(layer') = get_state(layer)
            /\ err' # <<>>]_vars

\* A facade that has generated a record and holds state in a layer it was
\* switched to has just refused a switch.
C30_Witness ==
    /\ err # <<>>
    /\ err[1].op = "switch_layer"
    /\ record # <<>>
    /\ DOMAIN layer.state # {}
    /\ call.pc = "idle"

====
